---- MODULE Spec2Model ----
(***************************************************************************)
(* rboot: a UEFI boot loader.  The model follows efi_main (src/main.rs)    *)
(* on the bootstrap processor and the address-space construction of        *)
(* src/page_table.rs: map_elf / map_segment over the kernel's program      *)
(* headers, map_physical_memory, the flag translators of both             *)
(* architectures and the firmware-backed frame allocator.                  *)
(*                                                                         *)
(* Addresses are scaled: a 4 KiB page is PageSize bytes, a 2 MiB page is   *)
(* PagesPerHuge pages, a page table has EntriesPerTable entries and the    *)
(* 4 GiB floor is MinMaxAddr.  `x & !0xfff` is x - (x % PageSize).         *)
(***************************************************************************)
EXTENDS Integers, Sequences, FiniteSets, TLC

\* ------------------------------------------------------------------ scale
PageSize == 4
PagesPerHuge == 2
EntriesPerTable == 2
MinMaxAddr == 16
HugeSize == PageSize * PagesPerHuge

\* ----------------------------------------------------------------- bounds
ImagePages == 2
MaxZero == 5
MaxShift == 3
MaxSegs == 1
MaxRegions == 2
MaxRegionPages == 2
MaxAvail == 3

ImageLen == ImagePages * PageSize
\* kernel image buffer: frames KernelStartFrame .. KernelStartFrame+ImagePages-1
KernelStartFrame == 1
kernel_start == KernelStartFrame * PageSize
ImageFrames == KernelStartFrame .. (KernelStartFrame + ImagePages - 1)

\* virtual pages a segment can touch: [0, ImageLen + MaxShift*PageSize + MaxZero]
KernelPages == ((ImageLen + MaxShift * PageSize + MaxZero) \div PageSize) + 1
KernelHuge == (KernelPages + PagesPerHuge - 1) \div PagesPerHuge
\* largest physical address a firmware region can end at
MaxRegionEnd == MinMaxAddr + MaxRegionPages * PageSize
PhysHuge == (MaxRegionEnd \div HugeSize) + 1
NHuge == ((KernelHuge + 1 + PhysHuge + EntriesPerTable) \div EntriesPerTable) * EntriesPerTable
NPages == NHuge * PagesPerHuge
NTables == NHuge \div EntriesPerTable

\* frames the firmware allocator can hand out at most
PoolSize == (MaxSegs + 1) * (KernelPages + KernelHuge) + NTables
FirstPoolFrame == KernelStartFrame + ImagePages
PoolFrames == FirstPoolFrame .. (FirstPoolFrame + PoolSize - 1)
Frames == 0 .. (FirstPoolFrame + PoolSize - 1)

\* content of memory the loader never initialised: a byte no image byte equals
Junk == ImageLen + 1

\* ---------------------------------------------------------------- helpers
Max(a, b) == IF a >= b THEN a ELSE b
Min(a, b) == IF a <= b THEN a ELSE b
PageOf(a) == a \div PageSize
AlignDown(a) == a - (a % PageSize)
align_up(a) == ((a + PageSize - 1) \div PageSize) * PageSize
HugeOf(page) == page \div PagesPerHuge
TableOf(h) == h \div EntriesPerTable

\* the byte of the kernel file at file offset i (all distinct, none zero)
ImageByte(i) == i + 1
InitMem(fill) ==
  [f \in Frames |->
     [b \in 0 .. (PageSize - 1) |->
        IF f \in ImageFrames THEN ImageByte((f - KernelStartFrame) * PageSize + b)
        ELSE IF f \in PoolFrames THEN fill
        ELSE Junk]]

\* ------------------------------------------------------------- page table
NoEntry == [frame |-> -1, flags |-> {}, attr |-> "none"]
Unused == [kind |-> "unused", frame |-> -1, flags |-> {}, attr |-> "none"]
Table == [kind |-> "table", frame |-> -1, flags |-> {}, attr |-> "none"]
\* a 2 MiB mapping the firmware installed before the loader ran
FwHuge == [kind |-> "huge", frame |-> -2, flags |-> {"FIRMWARE"}, attr |-> "none"]

\* ------------------------------------------------------------------ flags
default_ptf(arch) ==
  IF arch = "x86_64" THEN {"PRESENT", "WRITABLE"} ELSE {"VALID", "PXN"}

trans_flags_mut(arch, w, x) ==
  IF arch = "x86_64"
  THEN {"PRESENT"} \cup (IF ~x THEN {"NO_EXECUTE"} ELSE {}) \cup (IF w THEN {"WRITABLE"} ELSE {})
  ELSE {"VALID"} \cup (IF ~x THEN {"PXN"} ELSE {}) \cup (IF w THEN {"AP_RO"} ELSE {})

trans_flags(arch, w, x) ==
  IF arch = "x86_64"
  THEN {"PRESENT"} \cup (IF ~x THEN {"NO_EXECUTE"} ELSE {}) \cup (IF w THEN {"WRITABLE"} ELSE {})
  ELSE {"VALID"} \cup (IF ~x THEN {"PXN"} ELSE {}) \cup (IF ~w THEN {"AP_RO"} ELSE {})

\* memory attribute passed to map_to: MairNormal on aarch64, none on x86_64
MapAttr(arch) == IF arch = "x86_64" THEN "none" ELSE "MairNormal"

\* -------------------------------------------------------- frame allocator
\* UEFIFrameAllocator::allocate_frame: allocate_pages(..., 1).expect_success
allocate_frame_mut(avail, next) ==
  IF avail = 0 THEN [res |-> "Some", frame |-> 0, avail |-> 0, next |-> next]
  ELSE [res |-> "Some", frame |-> next, avail |-> avail - 1, next |-> next + 1]

allocate_frame(avail, next) ==
  IF avail = 0 THEN [res |-> "panic", frame |-> 0, avail |-> 0, next |-> next]
  ELSE [res |-> "Some", frame |-> next, avail |-> avail - 1, next |-> next + 1]

\* A mapper state threaded through one step:
\*   [p3, p2, p1, avail, next, res, failed, got]
\* res is "Ok", an error of MapToError / UnmapError, or "panic"; failed records
\* that the firmware had no frame left; got is the frame last handed out.
Take(st) ==
  IF st.res # "Ok" THEN st
  ELSE LET a == allocate_frame(st.avail, st.next) IN
    [st EXCEPT !.res = IF a.res = "panic" THEN "panic" ELSE "Ok",
               !.failed = st.failed \/ st.avail = 0,
               !.got = a.frame, !.avail = a.avail, !.next = a.next]

\* create_next_table on the entry above the P2 table of huge index h
CreateP2(st, h) ==
  IF st.res # "Ok" THEN st
  ELSE IF st.p3[TableOf(h)] = "table" THEN st
  ELSE LET t == Take(st) IN
         IF t.res # "Ok" THEN t ELSE [t EXCEPT !.p3[TableOf(h)] = "table"]

\* create_next_table on the P2 entry of huge index h (it must lead to a P1 table)
CreateP1(st, h) ==
  IF st.res # "Ok" THEN st
  ELSE IF st.p2[h].kind = "table" THEN st
  ELSE IF st.p2[h].kind = "huge" THEN [st EXCEPT !.res = "ParentEntryHugePage"]
  ELSE LET t == Take(st) IN
         IF t.res # "Ok" THEN t ELSE [t EXCEPT !.p2[h] = Table]

\* Mapper<Size4KiB>::map_to
map4k(st, page, frame, flags, attr) ==
  LET a == CreateP2(st, HugeOf(page))
      b == CreateP1(a, HugeOf(page))
  IN IF b.res # "Ok" THEN b
     ELSE IF b.p1[page] # NoEntry THEN [b EXCEPT !.res = "PageAlreadyMapped"]
     ELSE [b EXCEPT !.p1[page] = [frame |-> frame, flags |-> flags, attr |-> attr]]

\* Mapper<Size2MiB>::map_to
map2m(st, h, frame, flags, attr) ==
  LET a == CreateP2(st, h)
  IN IF a.res # "Ok" THEN a
     ELSE IF a.p2[h] # Unused THEN [a EXCEPT !.res = "PageAlreadyMapped"]
     ELSE [a EXCEPT !.p2[h] = [kind |-> "huge", frame |-> frame, flags |-> flags, attr |-> attr]]

\* Mapper<Size4KiB>::unmap
unmap_mut(st, page) ==
  IF st.res # "Ok" THEN st
  ELSE IF st.p3[TableOf(HugeOf(page))] # "table" THEN [st EXCEPT !.res = "PageNotMapped"]
  ELSE IF st.p2[HugeOf(page)].kind # "table" THEN [st EXCEPT !.res = "PageNotMapped"]
  ELSE IF st.p1[page] = NoEntry THEN [st EXCEPT !.res = "PageNotMapped"]
  ELSE [st EXCEPT !.p1[page] = NoEntry]

unmap(st, page) ==
  IF st.res # "Ok" THEN st
  ELSE IF st.p3[TableOf(HugeOf(page))] # "table" THEN [st EXCEPT !.res = "PageNotMapped"]
  ELSE IF st.p2[HugeOf(page)].kind = "huge" THEN [st EXCEPT !.res = "ParentEntryHugePage"]
  ELSE IF st.p2[HugeOf(page)].kind = "unused" THEN [st EXCEPT !.res = "PageNotMapped"]
  ELSE IF st.p1[page] = NoEntry THEN [st EXCEPT !.res = "PageNotMapped"]
  ELSE [st EXCEPT !.p1[page] = NoEntry]

\* ----------------------------------------------------------- the segments
zero_start(s) == s.virtual_addr + s.file_size
zero_end(s) == s.virtual_addr + s.mem_size
file_offset(s) == AlignDown(s.offset)
phys_start_addr(s) == kernel_start + file_offset(s)
start_page(s) == PageOf(s.virtual_addr)
start_frame(s) == PageOf(phys_start_addr(s))
end_frame(s) == PageOf(phys_start_addr(s) + s.file_size - 1)
last_page(s) == PageOf(s.virtual_addr + s.file_size - 1)
NeedsZero_mut(s) == s.mem_size >= s.file_size
NeedsZero(s) == s.mem_size > s.file_size
SharedPage_mut(s) == FALSE
SharedPage(s) == zero_start(s) % PageSize # 0
extra_start_page(s) == PageOf(align_up(zero_start(s)))
extra_end_page(s) == PageOf(zero_end(s))

\* core::ptr::write_bytes(zero_start, 0, mem_size - file_size) through the
\* active page table
ZeroRange(s) == zero_start(s) .. (zero_end(s) - 1)
write_bytes_mut(m, pt1, s) ==
  [f \in Frames |->
     [b \in 0 .. (PageSize - 1) |->
        IF \E v \in align_up(zero_start(s)) .. (zero_end(s) - 1) :
             pt1[PageOf(v)].frame = f /\ v % PageSize = b
        THEN 0 ELSE m[f][b]]]
write_bytes(m, pt1, s) ==
  [f \in Frames |->
     [b \in 0 .. (PageSize - 1) |->
        IF \E v \in ZeroRange(s) : pt1[PageOf(v)].frame = f /\ v % PageSize = b
        THEN 0 ELSE m[f][b]]]

\* temp_page_ptr.write(last_page_ptr.read())
copy_page_mut(m, new_frame, old_frame) == m
copy_page(m, new_frame, old_frame) == [m EXCEPT ![new_frame] = m[old_frame]]

\* ---------------------------------------------------------- Config::parse
\* A line of the configuration file is a sequence of symbols: the characters
\* " ", "#", "=", "+", "x" and the digits, and words ("cmdline", "foo", ...)
\* that stand for a run of other characters.
DEFAULT_CONFIG ==
  [kernel_stack_address |-> NHuge * HugeSize,
   kernel_stack_size |-> 512,
   physical_memory_offset |-> KernelHuge * HugeSize,
   kernel_path |-> <<"\\EFI\\rCore\\kernel.elf">>,
   resolution |-> <<>>,
   initramfs |-> <<>>,
   cmdline |-> <<>>]

\* str::trim
RECURSIVE trim_start(_)
trim_start(l) == IF l # <<>> /\ Head(l) = " " THEN trim_start(Tail(l)) ELSE l
RECURSIVE trim_end(_)
trim_end(l) ==
  IF l # <<>> /\ l[Len(l)] = " " THEN trim_end(SubSeq(l, 1, Len(l) - 1)) ELSE l
trim(l) == trim_end(trim_start(l))

\* the index of the first c in l, 0 when there is none
Find(l, c) ==
  IF \E i \in DOMAIN l : l[i] = c
  THEN CHOOSE i \in DOMAIN l : l[i] = c /\ \A j \in 1 .. (i - 1) : l[j] # c
  ELSE 0
\* str::splitn(2, c), as the sequence of its items
splitn2(l, c) ==
  IF Find(l, c) = 0 THEN <<l>>
  ELSE <<SubSeq(l, 1, Find(l, c) - 1), SubSeq(l, Find(l, c) + 1, Len(l))>>
\* str::split(c)
RECURSIVE split(_, _)
split(l, c) ==
  IF Find(l, c) = 0 THEN <<l>>
  ELSE <<SubSeq(l, 1, Find(l, c) - 1)>> \o split(SubSeq(l, Find(l, c) + 1, Len(l)), c)

\* u64::from_str_radix: the number, or -1 for Err
Digits == <<"0", "1", "2", "3", "4", "5", "6", "7", "8", "9",
            "a", "b", "c", "d", "e", "f">>
DigitOf(c, radix) ==
  IF \E d \in 1 .. radix : Digits[d] = c THEN (CHOOSE d \in 1 .. radix : Digits[d] = c) - 1
  ELSE -1
RECURSIVE digits_value(_, _, _)
digits_value(s, radix, acc) ==
  IF s = <<>> THEN acc
  ELSE IF DigitOf(Head(s), radix) < 0 THEN -1
  ELSE digits_value(Tail(s), radix, acc * radix + DigitOf(Head(s), radix))
from_str_radix(s, radix) ==
  LET d == IF s # <<>> /\ Head(s) = "+" THEN Tail(s) ELSE s
  IN IF d = <<>> THEN -1 ELSE digits_value(d, radix, 0)

\* the closures of process: r10 = from_str(value).unwrap(),
\* r16 = from_str_radix(&value[2..], 16).unwrap(); -1 is the panic
r10(value) == from_str_radix(value, 10)
r16(value) == IF Len(value) < 2 THEN -1 ELSE from_str_radix(SubSeq(value, 3, Len(value)), 16)

Parsed(c, w) == [config |-> c, warned |-> w, res |-> "Ok"]
Unwrap(c, w, n, field) ==
  IF n < 0 THEN [config |-> c, warned |-> w, res |-> "unwrap on Err"]
  ELSE Parsed([c EXCEPT ![field] = n], w)

\* Config::process
process_mut(c, w, key, value) ==
  IF key = <<"kernel_stack_address">> THEN Unwrap(c, w, r16(value), "kernel_stack_address")
  ELSE IF key = <<"kernel_stack_size">> THEN Unwrap(c, w, r10(value), "kernel_stack_size")
  ELSE IF key = <<"physical_memory_offset">>
  THEN Unwrap(c, w, r16(value), "physical_memory_offset")
  ELSE IF key = <<"kernel_path">> THEN Parsed([c EXCEPT !.kernel_path = value], w)
  ELSE IF key = <<"resolution">>
  THEN LET it == split(value, "x")
           x == from_str_radix(it[1], 10)
           y == IF Len(it) < 2 THEN -1 ELSE from_str_radix(it[2], 10)
       IN IF x < 0 \/ y < 0 THEN [config |-> c, warned |-> w, res |-> "unwrap on Err"]
          ELSE Parsed([c EXCEPT !.resolution = << <<x, y>> >>], w)
  ELSE IF key = <<"initramfs">> THEN Parsed([c EXCEPT !.initramfs = <<value>>], w)
  ELSE Parsed([c EXCEPT !.cmdline = value], w)

process(c, w, key, value) ==
  IF key = <<"kernel_stack_address">> THEN Unwrap(c, w, r16(value), "kernel_stack_address")
  ELSE IF key = <<"kernel_stack_size">> THEN Unwrap(c, w, r10(value), "kernel_stack_size")
  ELSE IF key = <<"physical_memory_offset">>
  THEN Unwrap(c, w, r16(value), "physical_memory_offset")
  ELSE IF key = <<"kernel_path">> THEN Parsed([c EXCEPT !.kernel_path = value], w)
  ELSE IF key = <<"resolution">>
  THEN LET it == split(value, "x")
           x == from_str_radix(it[1], 10)
           y == IF Len(it) < 2 THEN -1 ELSE from_str_radix(it[2], 10)
       IN IF x < 0 \/ y < 0 THEN [config |-> c, warned |-> w, res |-> "unwrap on Err"]
          ELSE Parsed([c EXCEPT !.resolution = << <<x, y>> >>], w)
  ELSE IF key = <<"initramfs">> THEN Parsed([c EXCEPT !.initramfs = <<value>>], w)
  ELSE IF key = <<"cmdline">> THEN Parsed([c EXCEPT !.cmdline = value], w)
  ELSE Parsed(c, Append(w, key))

\* the body of parse's loop, for one line
parse_line(c, w, raw) ==
  LET line == trim(raw)
      kv == splitn2(line, "=")
  IN IF line = <<>> \/ Head(line) = "#" THEN Parsed(c, w)
     ELSE IF Len(kv) < 2 THEN [config |-> c, warned |-> w, res |-> "failed to parse value"]
     ELSE process(c, w, kv[1], kv[2])

\* Config::parse, from line i of the text on
RECURSIVE parse_from(_, _, _, _)
parse_from(text, i, c, w) ==
  IF i > Len(text) THEN Parsed(c, w)
  ELSE LET r == parse_line(c, w, text[i])
       IN IF r.res # "Ok" THEN r ELSE parse_from(text, i + 1, r.config, r.warned)
parse(text) == parse_from(text, 1, DEFAULT_CONFIG, <<>>)

\* -------------------------------------------------------------- the inputs
LoadSegs(offsets, sizes, zeros, shifts, perms) ==
  { [type |-> "Load", w |-> p[1], x |-> p[2], offset |-> o,
     virtual_addr |-> o + sh * PageSize, file_size |-> fs, mem_size |-> fs + z] :
       o \in offsets, fs \in sizes, z \in zeros, sh \in shifts, p \in perms }

InImage(S) == { s \in S : s.offset + s.file_size <= ImageLen }
NoteSeg == [type |-> "Note", w |-> FALSE, x |-> FALSE, offset |-> 0,
            virtual_addr |-> 0, file_size |-> 1, mem_size |-> 1]
ElfFiles(S, n) == UNION { [1 .. k -> S] : k \in 1 .. n }

\* every offset and size of the image, text and data permissions, from page 1
SegsRich ==
  InImage(LoadSegs(0 .. (ImageLen - 1), 0 .. ImageLen, 0 .. MaxZero, {1},
                   {<<FALSE, TRUE>>, <<TRUE, FALSE>>}))
\* what an earlier program header can have left in the page table
SegsPrior ==
  LoadSegs({PageSize}, {PageSize - 1}, {0, 2}, (-1) .. (MaxShift - 1), {<<TRUE, TRUE>>})
  \cup {NoteSeg}
\* every permission, fewer shapes
SegsBoot ==
  LoadSegs({0}, {PageSize - 1}, {0, MaxZero}, {1}, BOOLEAN \X BOOLEAN) \cup {NoteSeg}

Regions ==
  { [phys_start |-> a, page_count |-> n] :
      a \in {0, MinMaxAddr}, n \in {1, MaxRegionPages} }
MemoryMaps == UNION { [1 .. k -> Regions] : k \in 1 .. MaxRegions }

\* config.physical_memory_offset: past the kernel, 2 MiB aligned or not, or on it
Offsets == { KernelHuge * HugeSize, KernelHuge * HugeSize + PageSize, HugeSize }

\* elf.header.pt2.entry_point(): an address in the kernel's first page
EntryPoints == {PageSize + 1}
\* what init_graphic can return, and where the ACPI 2 RSDP can be
NoGraphic == [mode |-> "none"]
GraphicInfos == { [mode |-> m] : m \in {"Rgb", "Bgr"} }
AcpiAddrs == {MinMaxAddr - PageSize}

\* `physical_memory_offset=0x...` as the configuration file writes it
RECURSIVE to_hex(_)
to_hex(n) ==
  IF n < 16 THEN <<Digits[n + 1]>> ELSE to_hex(n \div 16) \o <<Digits[(n % 16) + 1]>>
OffsetLine(o) == <<"physical_memory_offset", "=", "0", "x">> \o to_hex(o)

\* lines of a configuration file: blank, comment, known and unknown keys,
\* well-formed and malformed values
ConfigLines ==
  { <<>>, <<" ">>,
    <<"#", "foo", "=", "1">>,
    <<"foo", "=", "b", "a", "r">>,
    <<" ", "foo", "=", "x", " ">>,
    <<"foo", " ", "=", "1">>,
    <<"=", "1">>,
    <<"foo", "=">>,
    <<"foo", "=", "1", "=", "2">>,
    <<"foo">>,
    <<"cmdline", "=", "a", "=", "b">>,
    <<" ", "kernel_path", "=", "k">>,
    <<"initramfs", "=">>,
    <<"kernel_stack_size", "=", "+", "1", "2">>,
    <<"kernel_stack_size", "=", "0", "x", "1">>,
    <<"physical_memory_offset", "=", "z", "z", "1", "f">>,
    <<"kernel_stack_address", "=", "0">>,
    <<"resolution", "=", "8", "x", "6">>,
    <<"resolution", "=", "8">> }
MaxLines == 2
ConfigFiles == UNION { [1 .. k -> ConfigLines] : k \in 0 .. MaxLines }

\* the BootInfo efi_main builds, and the memory map exit_boot_services
\* returns: the firmware's regions and the pages the loader allocated, which
\* the firmware either merged into a neighbouring descriptor or lists as a
\* descriptor of their own
NoBootInfo == [memory_map |-> <<>>, physical_memory_offset |-> 0,
               graphic_info |-> NoGraphic, acpi2_rsdp_addr |-> 0]
FinalMemoryMap(mm, nxt, merged) ==
  IF merged
  THEN [mm EXCEPT ![Len(mm)].page_count = @ + (nxt - FirstPoolFrame)]
  ELSE Append(mm, [phys_start |-> FirstPoolFrame * PageSize,
                   page_count |-> nxt - FirstPoolFrame])
BootInfo_mut(iter, offset, g, acpi) ==
  [memory_map |-> iter, physical_memory_offset |-> offset,
   graphic_info |-> g, acpi2_rsdp_addr |-> 0]
BootInfo(iter, offset, g, acpi) ==
  [memory_map |-> iter, physical_memory_offset |-> offset,
   graphic_info |-> g, acpi2_rsdp_addr |-> acpi]

\* ------------------------------------------------------------------- state
VARIABLES
  arch,           \* target_arch of the build
  elf,            \* program headers of the kernel file
  mmap,           \* firmware memory map: regions
  physical_memory_offset, \* config.physical_memory_offset
  pc,             \* position of the bootstrap processor in efi_main
  panicMsg,       \* message of the panic that halted it
  seg,            \* index of the program header map_elf is at
  cur,            \* loop counter of the loop pc is in
  page_table_flags, \* local of map_segment
  max_phys_addr,  \* local of efi_main
  p3, p2, p1,     \* the active page table: upper entries, P2 entries, P1 entries
  mem,            \* physical memory, by frame and byte
  next,           \* the frame the firmware allocator gives next
  write_protect,  \* CR0.WP
  nxe,            \* EFER.NXE
  boot_services,  \* "active" | "exited"
  aps,            \* application processors: "halted" | "in_kernel"
  kernel_entered, \* the bootstrap processor jumped to ENTRY
  allocFailed,    \* history: the allocator was asked for a frame it did not have
  segMapped,      \* history: <<page, frame>> mapped by the current map_segment call
  segFresh,       \* history: frames map_segment itself allocated in the current call
  sharedOld,      \* history: the frame the shared page was mapped to before the remap
  entry_point,    \* elf.header.pt2.entry_point()
  ENTRY,          \* static mut ENTRY
  PHYSICAL_MEMORY_OFFSET, \* static mut PHYSICAL_MEMORY_OFFSET
  ap_read,        \* what an application processor read in jump_to_entry
  graphic_info,   \* local of efi_main
  acpi2_addr,     \* local of efi_main
  bootinfo,       \* the BootInfo handed to the kernel
  exit_values,    \* history: the locals and the returned memory map at exit_boot_services
  mmap_storage,   \* local of efi_main: descriptors the leaked buffer can hold
  exit_status,    \* history: what exit_boot_services reported
  fw_after_exit,  \* history: a boot service was called after exit_boot_services
  done,           \* history: the steps of efi_main completed, in order
  start_outcome,  \* history: what start_aps got from the firmware
  map_result,     \* history: where map_elf stopped and with what result
  content,        \* the lines of the configuration file
  config,         \* the Config that Config::parse returned
  warned          \* the keys Config::parse warned about

vars == <<arch, elf, mmap, physical_memory_offset, pc, panicMsg, seg, cur,
          page_table_flags, max_phys_addr, p3, p2, p1, mem, next,
          write_protect, nxe, boot_services, aps, kernel_entered,
          allocFailed, segMapped, segFresh, sharedOld,
          entry_point, ENTRY, PHYSICAL_MEMORY_OFFSET, ap_read,
          graphic_info, acpi2_addr, bootinfo, exit_values, fw_after_exit,
          mmap_storage, exit_status,
          done, start_outcome, map_result, content, config, warned>>

inputs == <<arch, elf, mmap, physical_memory_offset, entry_point, content>>
table == <<p3, p2, p1>>
cpu == <<write_protect, nxe>>
hist == <<segMapped, segFresh, sharedOld>>
context == <<ENTRY, PHYSICAL_MEMORY_OFFSET>>
locals == <<graphic_info, acpi2_addr, mmap_storage>>
handoff == <<bootinfo, exit_values, fw_after_exit, exit_status>>
parsed == <<config, warned>>

InitCommon ==
  /\ panicMsg = ""
  /\ seg = 1
  /\ cur = 0
  /\ page_table_flags = {}
  /\ max_phys_addr = 0
  /\ p1 = [p \in 0 .. (NPages - 1) |-> NoEntry]
  /\ next = FirstPoolFrame
  /\ boot_services = "active"
  /\ aps = "halted"
  /\ kernel_entered = FALSE
  /\ allocFailed = FALSE
  /\ segMapped = {}
  /\ segFresh = {}
  /\ sharedOld = -1
  /\ ap_read = <<>>
  /\ bootinfo = NoBootInfo
  /\ exit_values = NoBootInfo
  /\ exit_status = ""
  /\ fw_after_exit = FALSE
  /\ done = <<>>
  /\ start_outcome = ""
  /\ map_result = [at |-> "", res |-> ""]
  /\ warned = <<>>

NoFirmwareHuge == [h \in 0 .. (NHuge - 1) |-> Unused]
\* the firmware's own 2 MiB mapping lies over the first kernel pages
FirmwareHuge == [h \in 0 .. (NHuge - 1) |-> IF h = 0 THEN FwHuge ELSE Unused]
\* the entries above the P2 tables: present where the firmware mapped something
UpperEntries(huge) ==
  [t \in 0 .. (NTables - 1) |->
     IF \E h \in 0 .. (NHuge - 1) : TableOf(h) = t /\ huge[h] # Unused
     THEN "table" ELSE "unused"]

\* the boot sequence: every architecture, permission, memory map, offset and
\* number of frames the firmware has left
Init ==
  /\ InitCommon
  /\ pc = "load_config"
  /\ write_protect = TRUE
  /\ nxe = FALSE
  /\ arch \in {"x86_64", "aarch64"}
  /\ elf \in ElfFiles(SegsBoot, MaxSegs)
  /\ mmap \in MemoryMaps
  /\ physical_memory_offset \in Offsets
  /\ p2 = NoFirmwareHuge
  /\ p3 = UpperEntries(p2)
  /\ mem = InitMem(Junk)
  /\ entry_point \in EntryPoints
  /\ content = <<OffsetLine(physical_memory_offset)>>
  /\ config = DEFAULT_CONFIG
  /\ ENTRY = 0
  /\ PHYSICAL_MEMORY_OFFSET = 0
  /\ graphic_info = NoGraphic
  /\ acpi2_addr = 0
  /\ mmap_storage = 0

\* the segment mapper, as efi_main calls map_elf: every shape of a load
\* segment, mapped after an earlier program header
InitSeg ==
  /\ InitCommon
  /\ pc = "map_elf"
  /\ write_protect = FALSE
  /\ nxe = TRUE
  /\ arch = "x86_64"
  /\ elf \in { <<a, b>> : a \in SegsPrior, b \in SegsRich }
  /\ mmap = <<[phys_start |-> 0, page_count |-> 1]>>
  /\ physical_memory_offset = KernelHuge * HugeSize
  /\ p2 \in {NoFirmwareHuge, FirmwareHuge}
  /\ p3 = UpperEntries(p2)
  /\ \E fill \in {0, Junk} : mem = InitMem(fill)
  /\ entry_point \in EntryPoints
  /\ content = <<>>
  /\ config = DEFAULT_CONFIG
  /\ ENTRY = entry_point
  /\ PHYSICAL_MEMORY_OFFSET = physical_memory_offset
  /\ graphic_info = [mode |-> "Rgb"]
  /\ acpi2_addr = MinMaxAddr - PageSize
  /\ mmap_storage = Len(mmap)

\* Config::parse, as efi_main calls it: every text of up to MaxLines lines
InitCfg ==
  /\ InitCommon
  /\ pc = "load_config"
  /\ write_protect = TRUE
  /\ nxe = FALSE
  /\ arch = "x86_64"
  /\ elf = <<NoteSeg>>
  /\ mmap = <<[phys_start |-> 0, page_count |-> 1]>>
  /\ physical_memory_offset = KernelHuge * HugeSize
  /\ p2 = NoFirmwareHuge
  /\ p3 = UpperEntries(p2)
  /\ mem = InitMem(Junk)
  /\ entry_point \in EntryPoints
  /\ content \in ConfigFiles
  /\ config = DEFAULT_CONFIG
  /\ ENTRY = 0
  /\ PHYSICAL_MEMORY_OFFSET = 0
  /\ graphic_info = NoGraphic
  /\ acpi2_addr = 0
  /\ mmap_storage = 0

\* ------------------------------------------------------------------ steps
Panic(msg) ==
  /\ pc' = "panic"
  /\ panicMsg' = msg

\* steps 1-3 of efi_main: each is a chain of firmware calls that are
\* expect_success'ed; `ok` is whether the firmware served them
Prelude(here, there, msg, ok) ==
  /\ pc = here
  /\ IF ok THEN pc' = there /\ panicMsg' = panicMsg ELSE Panic(msg)
  /\ UNCHANGED <<inputs, seg, cur, page_table_flags, max_phys_addr, table, mem,
                 next, cpu, boot_services, aps, kernel_entered, allocFailed, hist,
                 ap_read, handoff, done, start_outcome, map_result>>

\* open_file, load_file, Config::parse
LoadConfig ==
  \E ok \in BOOLEAN :
    LET r == parse(content) IN
    /\ IF ok /\ r.res # "Ok"
       THEN /\ pc = "load_config"
            /\ Panic(r.res)
            /\ UNCHANGED <<inputs, seg, cur, page_table_flags, max_phys_addr, table,
                           mem, next, cpu, boot_services, aps, kernel_entered,
                           allocFailed, hist, ap_read, handoff, done, start_outcome,
                           map_result>>
       ELSE Prelude("load_config", "init_graphic", "failed to open file", ok)
    /\ config' = IF ok /\ r.res = "Ok" THEN r.config ELSE config
    /\ warned' = IF ok THEN r.warned ELSE warned
    /\ UNCHANGED <<context, locals>>

InitGraphic ==
  \E ok \in BOOLEAN, g \in GraphicInfos :
    /\ Prelude("init_graphic", "find_acpi", "graphic mode not found", ok)
    /\ graphic_info' = IF ok THEN g ELSE graphic_info
    /\ UNCHANGED <<context, acpi2_addr, mmap_storage, parsed>>

FindAcpi ==
  \E ok \in BOOLEAN, a \in AcpiAddrs :
    /\ Prelude("find_acpi", "load_kernel", "failed to find ACPI 2 RSDP", ok)
    /\ acpi2_addr' = IF ok THEN a ELSE acpi2_addr
    /\ UNCHANGED <<context, graphic_info, mmap_storage, parsed>>

\* ENTRY = elf.header.pt2.entry_point(); PHYSICAL_MEMORY_OFFSET = config...
startup_context_mut(entry, offset) == <<0, offset>>
startup_context(entry, offset) == <<entry, offset>>

\* open_file, load_file, ElfFile::new; then ENTRY and PHYSICAL_MEMORY_OFFSET
LoadKernel ==
  \E ok \in BOOLEAN :
    /\ Prelude("load_kernel", "memory_map", "failed to parse ELF", ok)
    /\ ENTRY' = IF ok THEN startup_context(entry_point, config.physical_memory_offset)[1]
                ELSE ENTRY
    /\ PHYSICAL_MEMORY_OFFSET' =
         IF ok THEN startup_context(entry_point, config.physical_memory_offset)[2]
         ELSE PHYSICAL_MEMORY_OFFSET
    /\ UNCHANGED <<locals, parsed>>

\* mmap_iter.map(|m| m.phys_start + m.page_count * 0x1000).max()
RegionEnd(m) == m.phys_start + m.page_count * PageSize
RECURSIVE IterMax(_, _)
IterMax(mm, i) ==
  IF i = Len(mm) THEN RegionEnd(mm[i])
  ELSE Max(RegionEnd(mm[i]), IterMax(mm, i + 1))

Floor_mut(a) == Min(a, MinMaxAddr)
Floor(a) == Max(a, MinMaxAddr)
MaxPhysAddr(mm) == Floor(IterMax(mm, 1))

\* boot_services().memory_map_size(): room for the map the firmware has now,
\* counted in descriptors
memory_map_size(mm) == Len(mm)

MemoryMap ==
  /\ pc = "memory_map"
  /\ \E ok \in BOOLEAN :
       IF ok
       THEN /\ pc' = "unprotect"
            /\ max_phys_addr' = MaxPhysAddr(mmap)
            /\ panicMsg' = panicMsg
       ELSE /\ Panic("failed to get memory map")
            /\ max_phys_addr' = max_phys_addr
  /\ mmap_storage' = memory_map_size(mmap)
  /\ UNCHANGED <<inputs, seg, cur, page_table_flags, table, mem, next, cpu,
                 boot_services, aps, kernel_entered, allocFailed, hist,
                 ap_read, context, graphic_info, acpi2_addr, handoff, done,
                 start_outcome, map_result, parsed>>

\* Cr0::update(remove WRITE_PROTECT); Efer::update(insert NO_EXECUTE_ENABLE)
Unprotect ==
  /\ pc = "unprotect"
  /\ write_protect' = FALSE
  /\ nxe' = TRUE
  /\ pc' = "map_elf"
  /\ seg' = 1
  /\ UNCHANGED <<inputs, panicMsg, cur, page_table_flags, max_phys_addr, table, mem,
                 next, boot_services, aps, kernel_entered, allocFailed, hist,
                 ap_read, context, locals, handoff, done, start_outcome, map_result, parsed>>

\* the mapper state a step starts in; the firmware has `left` frames to give
St(left) == [p3 |-> p3, p2 |-> p2, p1 |-> p1, avail |-> left, next |-> next,
             res |-> "Ok", failed |-> FALSE, got |-> -1]

Commit(st) ==
  /\ p3' = st.p3
  /\ p2' = st.p2
  /\ p1' = st.p1
  /\ next' = st.next
  /\ allocFailed' = (allocFailed \/ st.failed)

\* what a failed step of map_elf ends in: a panic inside the step, or the
\* error returned through `?` to .expect("failed to map ELF")
MapElfFailure(res) ==
  IF res = "panic" THEN "failed to allocate frame"
  ELSE IF res = "PageNotMapped" THEN "unreachable"
  ELSE "failed to map ELF"

\* the Err a step of map_segment returned (or the panic it ended in), and where
MapError(at, res) == [at |-> at, res |-> res]

\* map_elf's loop and the head of map_segment
MapElf ==
  /\ pc = "map_elf"
  /\ IF seg > Len(elf)
     THEN /\ pc' = "map_physical_memory"
          /\ cur' = 0
          /\ done' = Append(done, "map_elf")
          /\ UNCHANGED <<page_table_flags, hist, map_result>>
     ELSE /\ segMapped' = {}
          /\ done' = done
          /\ map_result' = [at |-> "", res |-> ""]
          /\ segFresh' = {}
          /\ sharedOld' = -1
          /\ cur' = 0
          /\ IF elf[seg].type # "Load"
             THEN pc' = "seg_ret" /\ page_table_flags' = page_table_flags
             ELSE /\ pc' = "seg_file"
                  /\ page_table_flags' = trans_flags(arch, elf[seg].w, elf[seg].x)
  /\ UNCHANGED <<inputs, panicMsg, seg, max_phys_addr, table, mem, next, cpu,
                 boot_services, aps, kernel_entered, allocFailed,
                 ap_read, context, locals, handoff, start_outcome, parsed>>

\* for frame in PhysFrame::range_inclusive(start_frame, end_frame)
SegFile ==
  /\ pc = "seg_file"
  /\ LET s == elf[seg]
         frame == start_frame(s) + cur
         page == start_page(s) + cur
     IN IF frame > end_frame(s)
        THEN /\ pc' = "seg_bss"
             /\ UNCHANGED <<panicMsg, cur, table, next, allocFailed, segMapped,
                            map_result>>
        ELSE \E left \in 0 .. MaxAvail :
             LET st == map4k(St(left), page, frame, page_table_flags, MapAttr(arch)) IN
             /\ Commit(st)
             /\ IF st.res = "Ok"
                THEN /\ cur' = cur + 1
                     /\ segMapped' = segMapped \cup {<<page, frame>>}
                     /\ UNCHANGED <<pc, panicMsg, map_result>>
                ELSE /\ Panic(MapElfFailure(st.res))
                     /\ map_result' = MapError("seg_file", st.res)
                     /\ UNCHANGED <<cur, segMapped>>
  /\ UNCHANGED <<inputs, seg, page_table_flags, max_phys_addr, mem, cpu,
                 boot_services, aps, kernel_entered, segFresh, sharedOld,
                 ap_read, context, locals, handoff, done, start_outcome, parsed>>

\* if mem_size > file_size { if zero_start & 0xfff != 0 { copy and remap } ...
SegBss ==
  /\ pc = "seg_bss"
  /\ LET s == elf[seg] IN
     IF ~NeedsZero(s)
     THEN /\ pc' = "seg_ret"
          /\ UNCHANGED <<panicMsg, cur, table, next, allocFailed, mem, hist, map_result>>
     ELSE IF ~SharedPage(s)
     THEN /\ pc' = "seg_extra"
          /\ cur' = 0
          /\ UNCHANGED <<panicMsg, table, next, allocFailed, mem, hist, map_result>>
     ELSE \E left \in 0 .. MaxAvail :
          LET a == Take(St(left))
              new_frame == a.got
              u == unmap(a, last_page(s))
              m == map4k(u, last_page(s), new_frame, page_table_flags, MapAttr(arch))
          IN /\ Commit(m)
             /\ mem' = IF a.res = "Ok" THEN copy_page(mem, new_frame, end_frame(s)) ELSE mem
             /\ IF m.res = "Ok"
                THEN /\ pc' = "seg_extra"
                     /\ cur' = 0
                     /\ panicMsg' = panicMsg
                     /\ segMapped' = segMapped \cup {<<last_page(s), new_frame>>}
                     /\ segFresh' = segFresh \cup {new_frame}
                     /\ sharedOld' = p1[last_page(s)].frame
                     /\ map_result' = map_result
                ELSE /\ Panic(MapElfFailure(m.res))
                     /\ map_result' = MapError("seg_bss", m.res)
                     /\ UNCHANGED <<cur, hist>>
  /\ UNCHANGED <<inputs, seg, page_table_flags, max_phys_addr, cpu,
                 boot_services, aps, kernel_entered,
                 ap_read, context, locals, handoff, done, start_outcome, parsed>>

\* for page in Page::range_inclusive(start_page, end_page)
SegExtra ==
  /\ pc = "seg_extra"
  /\ LET s == elf[seg]
         page == extra_start_page(s) + cur
     IN IF page > extra_end_page(s)
        THEN /\ pc' = "seg_zero"
             /\ UNCHANGED <<panicMsg, cur, table, next, allocFailed, segMapped, segFresh,
                            map_result>>
        ELSE \E left \in 0 .. MaxAvail :
             LET a == Take(St(left))
                 st == map4k(a, page, a.got, page_table_flags, MapAttr(arch))
             IN /\ Commit(st)
                /\ IF st.res = "Ok"
                   THEN /\ cur' = cur + 1
                        /\ segMapped' = segMapped \cup {<<page, a.got>>}
                        /\ segFresh' = segFresh \cup {a.got}
                        /\ UNCHANGED <<pc, panicMsg, map_result>>
                   ELSE /\ Panic(MapElfFailure(st.res))
                        /\ map_result' = MapError("seg_extra", st.res)
                        /\ UNCHANGED <<cur, segMapped, segFresh>>
  /\ UNCHANGED <<inputs, seg, page_table_flags, max_phys_addr, mem, cpu,
                 boot_services, aps, kernel_entered, sharedOld,
                 ap_read, context, locals, handoff, done, start_outcome, parsed>>

\* a store through a page the processor will not write
Denied(e) ==
  IF arch = "x86_64" THEN write_protect /\ "WRITABLE" \notin e.flags
  ELSE "AP_RO" \in e.flags
Faults(s) ==
  \E v \in ZeroRange(s) : p1[PageOf(v)] = NoEntry \/ Denied(p1[PageOf(v)])

\* zero bss
SegZero ==
  /\ pc = "seg_zero"
  /\ IF Faults(elf[seg])
     THEN Panic("page fault") /\ mem' = mem
     ELSE /\ mem' = write_bytes(mem, p1, elf[seg])
          /\ pc' = "seg_ret"
          /\ panicMsg' = panicMsg
  /\ UNCHANGED <<inputs, seg, cur, page_table_flags, max_phys_addr, table, next, cpu,
                 boot_services, aps, kernel_entered, allocFailed, hist,
                 ap_read, context, locals, handoff, done, start_outcome, map_result, parsed>>

\* map_segment returned Ok(()) to map_elf
SegRet ==
  /\ pc = "seg_ret"
  /\ seg' = seg + 1
  /\ pc' = "map_elf"
  /\ UNCHANGED <<inputs, panicMsg, cur, page_table_flags, max_phys_addr, table, mem,
                 next, cpu, boot_services, aps, kernel_entered, allocFailed, hist,
                 ap_read, context, locals, handoff, done, start_outcome, map_result, parsed>>

\* PhysFrame::containing_address(PhysAddr::new(max_addr)), as a 2 MiB frame
phys_end_frame(max_addr) == max_addr \div HugeSize
\* Page::containing_address(VirtAddr::new(frame.start_address() + offset))
phys_page(frame, offset) == (frame * HugeSize + offset) \div HugeSize

MapPhysicalMemory ==
  /\ pc = "map_physical_memory"
  /\ IF cur > phys_end_frame(max_phys_addr)
     THEN /\ pc' = "protect"
          /\ done' = Append(done, "map_physical_memory")
          /\ UNCHANGED <<panicMsg, cur, table, next, allocFailed>>
     ELSE \E left \in 0 .. MaxAvail :
          LET st == map2m(St(left), phys_page(cur, physical_memory_offset), cur,
                          default_ptf(arch), MapAttr(arch))
          IN /\ Commit(st)
             /\ done' = done
             /\ IF st.res = "Ok"
                THEN cur' = cur + 1 /\ UNCHANGED <<pc, panicMsg>>
                ELSE /\ Panic(IF st.res = "panic" THEN "failed to allocate frame"
                              ELSE "failed to map physical memory")
                     /\ cur' = cur
  /\ UNCHANGED <<inputs, seg, page_table_flags, max_phys_addr, mem, cpu,
                 boot_services, aps, kernel_entered, hist,
                 ap_read, context, locals, handoff, start_outcome, map_result, parsed>>

\* Cr0::update(insert WRITE_PROTECT)
Protect_mut ==
  /\ pc = "protect"
  /\ write_protect' = write_protect
  /\ pc' = "start_aps"
  /\ UNCHANGED <<inputs, panicMsg, seg, cur, page_table_flags, max_phys_addr, table,
                 mem, next, nxe, boot_services, aps, kernel_entered, allocFailed, hist,
                 ap_read, context, locals, handoff, done, start_outcome, map_result,
                 parsed>>

Protect ==
  /\ pc = "protect"
  /\ write_protect' = TRUE
  /\ pc' = "start_aps"
  /\ UNCHANGED <<inputs, panicMsg, seg, cur, page_table_flags, max_phys_addr, table,
                 mem, next, nxe, boot_services, aps, kernel_entered, allocFailed, hist,
                 ap_read, context, locals, handoff, done, start_outcome, map_result,
                 parsed>>

\* what startup_all_aps can report
MpStatus == {"SUCCESS", "TIMEOUT", "NOT_STARTED", "NOT_READY"}

\* locate_protocol::<MPServices>().expect_success(...), then
\* startup_all_aps(false, ap_main, null, 1 s).expect_error(...): the processors
\* the firmware started run ap_main, which never returns, so the call times out
StartAps ==
  /\ pc = "start_aps"
  /\ \E found \in BOOLEAN, status \in MpStatus :
       IF ~found
       THEN /\ Panic("failed to get MPServices")
            /\ start_outcome' = "NOT_FOUND"
            /\ UNCHANGED <<aps, done>>
       ELSE /\ aps' = IF status = "TIMEOUT" THEN "started" ELSE aps
            /\ start_outcome' = status
            /\ done' = Append(done, "start_aps")
            /\ IF status = "SUCCESS"
               THEN Panic("failed to startup all application processors")
               ELSE pc' = "exit_boot_services" /\ panicMsg' = panicMsg
  /\ UNCHANGED <<inputs, seg, cur, page_table_flags, max_phys_addr, table, mem,
                 next, cpu, boot_services, kernel_entered, allocFailed, hist,
                 ap_read, context, locals, handoff, map_result, parsed>>

\* ap_main on an application processor: jump_to_entry(null) reads
\* PHYSICAL_MEMORY_OFFSET and ENTRY and jumps
ApMain ==
  /\ aps = "started"
  /\ ap_read' = <<ENTRY, PHYSICAL_MEMORY_OFFSET>>
  /\ aps' = "in_kernel"
  /\ UNCHANGED <<inputs, pc, panicMsg, seg, cur, page_table_flags, max_phys_addr,
                 table, mem, next, cpu, boot_services, kernel_entered, allocFailed,
                 hist, context, locals, handoff, done, start_outcome, map_result,
                 parsed>>

\* st.exit_boot_services(image, mmap_storage).expect_success(...)
\* the status of exit_boot_services: it reads the memory map into the buffer
\* (BUFFER_TOO_SMALL when the map has more descriptors than the buffer holds)
\* and then asks the firmware to exit, which can refuse
exit_boot_services(needed, capacity, ok) ==
  IF needed > capacity THEN "BUFFER_TOO_SMALL"
  ELSE IF ok THEN "SUCCESS" ELSE "INVALID_PARAMETER"

ExitBootServices ==
  /\ pc = "exit_boot_services"
  /\ \E ok \in BOOLEAN, merged \in BOOLEAN :
       LET final == FinalMemoryMap(mmap, next, merged)
           status == exit_boot_services(Len(final), mmap_storage, ok)
       IN /\ exit_status' = status
          /\ IF status = "SUCCESS"
             THEN /\ boot_services' = "exited"
                  /\ pc' = "jump_to_entry"
                  /\ panicMsg' = panicMsg
                  /\ done' = Append(done, "exit_boot_services")
                  /\ exit_values' =
                       [memory_map |-> final,
                        physical_memory_offset |-> config.physical_memory_offset,
                        graphic_info |-> graphic_info,
                        acpi2_rsdp_addr |-> acpi2_addr]
             ELSE /\ Panic("Failed to exit boot services")
                  /\ boot_services' = boot_services
                  /\ UNCHANGED <<done, exit_values>>
  /\ UNCHANGED <<inputs, seg, cur, page_table_flags, max_phys_addr, table, mem,
                 next, cpu, aps, kernel_entered, allocFailed, hist,
                 ap_read, context, locals, bootinfo, fw_after_exit, start_outcome,
                 map_result, parsed>>

\* the boot services each step of efi_main calls
Services(step) ==
  IF step \in {"load_config", "load_kernel"} THEN {"file", "allocate_pages", "log"}
  ELSE IF step = "init_graphic" THEN {"locate_protocol", "display", "log"}
  ELSE IF step = "find_acpi" THEN {"log"}
  ELSE IF step = "memory_map" THEN {"allocate_pool", "memory_map"}
  ELSE IF step \in {"map_elf", "seg_file", "seg_bss", "seg_extra", "map_physical_memory"}
  THEN {"allocate_pages", "log"}
  ELSE IF step = "start_aps" THEN {"locate_protocol", "mp", "log"}
  ELSE IF step = "exit_boot_services" THEN {"log", "exit_boot_services"}
  ELSE IF step = "panic" THEN {"log"}
  ELSE {}

\* construct BootInfo; jump_to_entry(&bootinfo)
JumpToEntry_mut ==
  /\ pc = "exit_boot_services"
  /\ bootinfo' = BootInfo(exit_values.memory_map, config.physical_memory_offset,
                          graphic_info, acpi2_addr)
  /\ fw_after_exit' = (fw_after_exit \/ (boot_services = "exited" /\ Services(pc) # {}))
  /\ kernel_entered' = TRUE
  /\ done' = Append(done, "jump_to_entry")
  /\ pc' = "kernel"
  /\ UNCHANGED <<inputs, panicMsg, seg, cur, page_table_flags, max_phys_addr, table,
                 mem, next, cpu, boot_services, aps, allocFailed, hist,
                 ap_read, context, locals, exit_values, exit_status, start_outcome,
                 map_result,
                 parsed>>

JumpToEntry ==
  /\ pc = "jump_to_entry"
  /\ bootinfo' = BootInfo(exit_values.memory_map, config.physical_memory_offset,
                          graphic_info, acpi2_addr)
  /\ fw_after_exit' = (fw_after_exit \/ (boot_services = "exited" /\ Services(pc) # {}))
  /\ kernel_entered' = TRUE
  /\ done' = Append(done, "jump_to_entry")
  /\ pc' = "kernel"
  /\ UNCHANGED <<inputs, panicMsg, seg, cur, page_table_flags, max_phys_addr, table,
                 mem, next, cpu, boot_services, aps, allocFailed, hist,
                 ap_read, context, locals, exit_values, exit_status, start_outcome,
                 map_result,
                 parsed>>

Next ==
  \/ LoadConfig
  \/ InitGraphic
  \/ FindAcpi
  \/ LoadKernel
  \/ MemoryMap
  \/ Unprotect
  \/ MapElf
  \/ SegFile
  \/ SegBss
  \/ SegExtra
  \/ SegZero
  \/ SegRet
  \/ MapPhysicalMemory
  \/ Protect
  \/ StartAps
  \/ ApMain
  \/ ExitBootServices
  \/ JumpToEntry

\* map_elf alone
NextSeg ==
  \/ MapElf
  \/ SegFile
  \/ SegBss
  \/ SegExtra
  \/ SegZero
  \/ SegRet

\* Config::parse alone
NextCfg == LoadConfig

Spec == Init /\ [][Next]_vars
SpecSeg == InitSeg /\ [][NextSeg]_vars
SpecCfg == InitCfg /\ [][NextCfg]_vars

\* ------------------------------------------------------------ observations
\* a load of virtual address v through the active page table
Mapped(v) == p1[PageOf(v)] # NoEntry
Read(v) == mem[p1[PageOf(v)].frame][v % PageSize]
\* map_segment has just returned Ok(()) for the load segment elf[seg]
Returned == pc = "seg_ret" /\ elf[seg].type = "Load"
Fresh(f) == f \in PoolFrames /\ f < next
\* the permissions of segment s, read off a page-table entry
Present(e) == IF arch = "x86_64" THEN "PRESENT" \in e.flags ELSE "VALID" \in e.flags
Writable(e) == IF arch = "x86_64" THEN "WRITABLE" \in e.flags ELSE "AP_RO" \notin e.flags
NoExec(e) == IF arch = "x86_64" THEN "NO_EXECUTE" \in e.flags ELSE "PXN" \in e.flags
HasSegmentFlags(e, s) ==
  /\ Present(e)
  /\ Writable(e) <=> s.w
  /\ NoExec(e) <=> ~s.x

\* C1: after map_segment returns Ok for a load segment with mem_size > file_size,
\* every virtual byte of [virtual_addr + file_size, virtual_addr + mem_size) is
\* mapped and reads as zero.
C1_ZeroFillReadsZero ==
  (Returned /\ elf[seg].mem_size > elf[seg].file_size) =>
    \A v \in (elf[seg].virtual_addr + elf[seg].file_size) ..
             (elf[seg].virtual_addr + elf[seg].mem_size - 1) :
      Mapped(v) /\ Read(v) = 0

\* C1 witness: a zero-fill range that starts inside a shared page, runs into
\* further pages and lies in frames the firmware handed out dirty
C1_Witness ==
  /\ Returned
  /\ seg = 2
  /\ (elf[seg].virtual_addr + elf[seg].file_size) % PageSize # 0
  /\ elf[seg].mem_size - elf[seg].file_size > PageSize
  /\ mem[FirstPoolFrame + PoolSize - 1][0] = Junk

\* C2: after map_segment returns Ok for a load segment, every virtual byte v of
\* [virtual_addr, virtual_addr + file_size) is mapped and reads the image byte
\* at file offset (segment offset + v - virtual_addr), also when the file
\* offset is not page-aligned.
C2_FileBytesMapped ==
  Returned =>
    \A v \in elf[seg].virtual_addr .. (elf[seg].virtual_addr + elf[seg].file_size - 1) :
      Mapped(v) /\ Read(v) = ImageByte(elf[seg].offset + v - elf[seg].virtual_addr)

\* C2 for page-aligned file offsets only
C2_AlignedOffsets ==
  (Returned /\ elf[seg].offset % PageSize = 0) =>
    \A v \in elf[seg].virtual_addr .. (elf[seg].virtual_addr + elf[seg].file_size - 1) :
      Mapped(v) /\ Read(v) = ImageByte(elf[seg].offset + v - elf[seg].virtual_addr)

\* the shared page of the segment map_segment has just returned from: the
\* virtual page that holds the first zero-fill byte, which is not page-aligned
SharedReturned ==
  /\ Returned
  /\ elf[seg].mem_size > elf[seg].file_size
  /\ (elf[seg].virtual_addr + elf[seg].file_size) % PageSize # 0
SharedEntry == p1[PageOf(elf[seg].virtual_addr + elf[seg].file_size)]
ZeroOffset == (elf[seg].virtual_addr + elf[seg].file_size) % PageSize
RemappedFresh ==
  /\ SharedEntry # NoEntry
  /\ Fresh(SharedEntry.frame)
  /\ SharedEntry.frame # sharedOld
  /\ HasSegmentFlags(SharedEntry, elf[seg])

C3_SharedPageOriginalBytes ==
  SharedReturned =>
    /\ RemappedFresh
    /\ \A b \in 0 .. (PageSize - 1) :
         mem[SharedEntry.frame][b] =
           IF b < ZeroOffset \/ b >= ZeroOffset + elf[seg].mem_size - elf[seg].file_size
           THEN mem[sharedOld][b] ELSE 0

C4_ImageUntouched ==
  \A f \in ImageFrames \cup {0} : \A b \in 0 .. (PageSize - 1) :
    mem[f][b] = IF f = 0 THEN Junk ELSE ImageByte((f - KernelStartFrame) * PageSize + b)

\* C4 witness: a segment was zero-filled from inside a page of the image that
\* holds later file bytes
C4_Witness ==
  /\ SharedReturned
  /\ elf[seg].offset + elf[seg].file_size < ImageLen
  /\ Read(elf[seg].virtual_addr + elf[seg].file_size) = 0

\* C5: for a load segment with mem_size = file_size, map_segment asks the
\* frame source for no frame of its own and maps only frames of the image.
C5_NoFreshFrames ==
  (Returned /\ elf[seg].mem_size = elf[seg].file_size) =>
    /\ segFresh = {}
    /\ \A m \in segMapped : m[2] \in ImageFrames /\ p1[m[1]].frame = m[2]

\* C5 witness: such a segment, ending inside a page, with pages mapped
C5_Witness ==
  /\ Returned
  /\ seg = 2
  /\ elf[seg].mem_size = elf[seg].file_size
  /\ (elf[seg].virtual_addr + elf[seg].file_size) % PageSize # 0
  /\ segMapped # {}

\* a 2 MiB page the loader installed (not one the firmware had)
LoaderHuge(h) == p2[h].kind = "huge" /\ "FIRMWARE" \notin p2[h].flags
\* map_physical_memory has returned
PhysMapped == pc \in {"protect", "start_aps", "exit_boot_services", "jump_to_entry", "kernel"}

\* C6: map_physical_memory maps exactly [offset, offset + max_addr): every large
\* page inside the range is mapped to physical address (virtual - offset), and
\* no large page lying wholly at or beyond offset + max_addr is mapped.  Stated
\* for the offsets the mapper is meant for, those aligned to the large page.
C6_PhysicalRangeExact ==
  (PhysMapped /\ physical_memory_offset % HugeSize = 0) =>
    \A h \in 0 .. (NHuge - 1) :
      /\ (h * HugeSize >= physical_memory_offset
          /\ (h + 1) * HugeSize <= physical_memory_offset + max_phys_addr)
           => (LoaderHuge(h)
               /\ p2[h].frame * HugeSize = h * HugeSize - physical_memory_offset)
      /\ h * HugeSize >= physical_memory_offset + max_phys_addr => ~LoaderHuge(h)

\* C7: the max_addr handed to map_physical_memory is the largest region end
\* (phys_start + page_count * 0x1000) of the firmware memory map, raised to the
\* 4 GiB floor when smaller; it is never below the floor.
C7_MaxAddrFloored ==
  pc = "map_physical_memory" =>
    /\ max_phys_addr >= MinMaxAddr
    /\ \A i \in DOMAIN mmap :
         max_phys_addr >= mmap[i].phys_start + mmap[i].page_count * PageSize
    /\ \/ max_phys_addr = MinMaxAddr
       \/ \E i \in DOMAIN mmap :
            max_phys_addr = mmap[i].phys_start + mmap[i].page_count * PageSize

\* C7 witness: a machine whose memory all ends below the floor
C7_Witness ==
  /\ pc = "map_physical_memory"
  /\ Len(mmap) = MaxRegions
  /\ \A i \in DOMAIN mmap :
       mmap[i].phys_start + mmap[i].page_count * PageSize < MinMaxAddr
  /\ max_phys_addr = MinMaxAddr

\* C8: every page installed by map_physical_memory is present, writable and
\* not executable.
C8_PhysicalPagesNoExecute ==
  \A h \in 0 .. (NHuge - 1) :
    LoaderHuge(h) => (Present(p2[h]) /\ Writable(p2[h]) /\ NoExec(p2[h]))

\* C9: for every combination of write and execute permission trans_flags
\* returns a flag set with the present/valid flag, with the deny-execute flag
\* exactly when execute is absent, and granting write exactly when write is
\* present (x86_64: WRITABLE iff write; aarch64: AP_RO iff not write).
C9_TransFlags ==
  pc \in {"seg_file", "seg_bss", "seg_extra", "seg_zero"} =>
    IF arch = "x86_64"
    THEN /\ "PRESENT" \in page_table_flags
         /\ "NO_EXECUTE" \in page_table_flags <=> ~elf[seg].x
         /\ "WRITABLE" \in page_table_flags <=> elf[seg].w
    ELSE /\ "VALID" \in page_table_flags
         /\ "PXN" \in page_table_flags <=> ~elf[seg].x
         /\ "AP_RO" \in page_table_flags <=> ~elf[seg].w

\* C9 witness: a read-only executable segment on aarch64, its pages mapped
C9_Witness ==
  /\ pc = "seg_bss"
  /\ arch = "aarch64"
  /\ ~elf[seg].w
  /\ elf[seg].x
  /\ segMapped # {}
  /\ \A m \in segMapped : p1[m[1]].flags = {"VALID", "AP_RO"}

\* C10: once the frame source is exhausted during segment or physical-memory
\* mapping, or any other fatal condition has struck, the boot sequence has
\* halted: boot services are never exited and the kernel is never entered.
C10_ExhaustionHalts ==
  /\ allocFailed => pc = "panic"
  /\ pc = "panic" => (boot_services = "active" /\ ~kernel_entered)

\* C10 witness: the firmware ran out of frames in map_physical_memory, after
\* the kernel's segments and part of physical memory were mapped
C10_Witness ==
  /\ allocFailed
  /\ pc = "panic"
  /\ \E p \in 0 .. (NPages - 1) : p1[p] # NoEntry
  /\ \E h \in 0 .. (NHuge - 1) : LoaderHuge(h)

\* the processors the firmware could not be asked to start, or that it reported
\* a failure or a timeout for
StartFailed == start_outcome \in ({"NOT_FOUND"} \cup (MpStatus \ {"SUCCESS"}))
\* start_aps returned to efi_main, which went on to exit_boot_services
Proceeded ==
  \/ pc \in {"exit_boot_services", "jump_to_entry", "kernel"}
  \/ pc = "panic" /\ panicMsg = "Failed to exit boot services"

\* C11: whenever secondary-processor startup fails or times out, the failure is
\* not fatal: the primary processor proceeds to exit boot services (and from
\* there to the kernel handoff).
C11_StartFailureNotFatal == StartFailed => Proceeded

\* C11 for the failures startup_all_aps itself reports
C11_RequestFailureNotFatal ==
  start_outcome \in (MpStatus \ {"SUCCESS"}) => Proceeded

\* C12: once exit_boot_services has succeeded the primary processor calls no
\* boot service on its way to the kernel jump, and every value of the BootInfo
\* it hands over was captured before the exit call or is the memory map that
\* call returned.
C12_NoFirmwareAfterExit ==
  /\ ~fw_after_exit
  /\ boot_services = "exited" => Services(pc) = {}
  /\ kernel_entered =>
       /\ bootinfo = exit_values
       /\ \E merged \in BOOLEAN : bootinfo.memory_map = FinalMemoryMap(mmap, next, merged)
       /\ bootinfo.acpi2_rsdp_addr \in AcpiAddrs
       /\ bootinfo.graphic_info \in GraphicInfos
       /\ bootinfo.physical_memory_offset = physical_memory_offset

\* C12 witness: the kernel was entered with a memory map that lists the
\* loader's own allocations
C12_Witness ==
  /\ kernel_entered
  /\ boot_services = "exited"
  /\ Len(bootinfo.memory_map) = Len(mmap)
  /\ bootinfo.memory_map[Len(mmap)].page_count > mmap[Len(mmap)].page_count
  /\ bootinfo.graphic_info.mode = "Bgr"

\* the start request was issued to the firmware
Requested == start_outcome \in MpStatus

\* C13: the startup context (ENTRY, PHYSICAL_MEMORY_OFFSET) is fully written
\* before the request to start the secondary processors is issued and keeps
\* that value afterwards; a secondary processor reads the populated values.
C13_ContextWrittenBeforeStart ==
  /\ Requested => /\ ENTRY = entry_point
                  /\ PHYSICAL_MEMORY_OFFSET = physical_memory_offset
  /\ aps = "in_kernel" => ap_read = <<entry_point, physical_memory_offset>>

\* C13 witness: a secondary processor read the context after the primary had
\* gone on to the kernel
C13_Witness ==
  /\ aps = "in_kernel"
  /\ kernel_entered
  /\ ap_read[1] # 0
  /\ ap_read[2] = KernelHuge * HugeSize + PageSize

\* C14: no secondary processor transfers control to the kernel entry before the
\* primary processor has exited boot services and made its own jump.
C14_ApsWaitForJump ==
  aps = "in_kernel" => (boot_services = "exited" /\ kernel_entered)

\* the keys Config::process matches
KnownKeys ==
  { <<"kernel_stack_address">>, <<"kernel_stack_size">>, <<"physical_memory_offset">>,
    <<"kernel_path">>, <<"resolution">>, <<"initramfs">>, <<"cmdline">> }
\* a line `key=value` (not a comment) whose key is none of them
UnknownKeyLine(raw) ==
  /\ trim(raw) # <<>>
  /\ Head(trim(raw)) # "#"
  /\ Find(trim(raw), "=") # 0
  /\ SubSeq(trim(raw), 1, Find(trim(raw), "=") - 1) \notin KnownKeys
KeyOf(raw) == SubSeq(trim(raw), 1, Find(trim(raw), "=") - 1)
Without(text, i) == SubSeq(text, 1, i - 1) \o SubSeq(text, i + 1, Len(text))
\* Config::parse has run on `content`
ParseRan == pc # "load_config" /\ panicMsg # "failed to open file"

\* C15: for any configuration text, a line `key=value` with an unknown key does
\* not abort parsing, produces a warning, and leaves every parsed field equal
\* to the result of parsing the text without that line.
C15_UnknownKeyIgnored ==
  ParseRan =>
    \A i \in DOMAIN content :
      UnknownKeyLine(content[i]) =>
        /\ (pc = "panic") <=> (parse(Without(content, i)).res # "Ok")
        /\ pc = "panic" => panicMsg = parse(Without(content, i)).res
        /\ pc # "panic" =>
             /\ config = parse(Without(content, i)).config
             /\ Len(warned) = Len(parse(Without(content, i)).warned) + 1
             /\ \E k \in DOMAIN warned : warned[k] = KeyOf(content[i])

\* C15 witness: a text with an unknown key in front of a line that sets a field
C15_Witness ==
  /\ pc = "init_graphic"
  /\ Len(content) = MaxLines
  /\ UnknownKeyLine(content[1])
  /\ ~UnknownKeyLine(content[MaxLines])
  /\ config # DEFAULT_CONFIG
  /\ Len(warned) = 1

\* CR0.WP is clear only between Unprotect and Protect
Constructing ==
  pc \in {"map_elf", "seg_file", "seg_bss", "seg_extra", "seg_zero", "seg_ret",
          "map_physical_memory", "protect", "panic"}

\* C16: write protection is cleared only for the address-space construction:
\* every page-table mutation by map_elf and map_physical_memory happens while
\* it is cleared, and it is set again before the start request, before
\* exit_boot_services and before the kernel jump.
C16_WriteProtectWindow ==
  /\ [](~write_protect => Constructing)
  /\ [](pc \in {"start_aps", "exit_boot_services", "jump_to_entry", "kernel"}
          => write_protect)
  /\ [][table' # table => (~write_protect /\ ~write_protect')]_vars

\* C16 witness: write protection is back on with the address space built
C16_Witness ==
  /\ pc = "start_aps"
  /\ write_protect
  /\ \E p \in 0 .. (NPages - 1) : p1[p] # NoEntry
  /\ \E h \in 0 .. (NHuge - 1) : LoaderHuge(h)

\* the steps of efi_main from the address-space construction on
Order == <<"map_elf", "map_physical_memory", "start_aps", "exit_boot_services",
           "jump_to_entry">>

\* C17: on the primary processor the steps occur in one fixed order, none
\* repeated: every load segment is mapped, then physical memory, then the
\* secondary processors are requested, then boot services are exited, then the
\* kernel is entered; the jump is never reached unless exit_boot_services
\* succeeded and both mappers completed.
C17_FixedOrder ==
  /\ Len(done) <= Len(Order)
  /\ done = SubSeq(Order, 1, Len(done))
  /\ Len(done) >= 1 =>
       \A i \in DOMAIN elf :
         (elf[i].type = "Load" /\ elf[i].file_size > 0) => Mapped(elf[i].virtual_addr)
  /\ Len(done) >= 2 => \A h \in 0 .. (max_phys_addr \div HugeSize) - 1 :
                         LoaderHuge(phys_page(h, physical_memory_offset))
  /\ kernel_entered => (done = Order /\ boot_services = "exited")

\* C17 witness: the kernel was entered after all five steps
C17_Witness ==
  /\ kernel_entered
  /\ done = Order
  /\ \E i \in DOMAIN elf : elf[i].type = "Load"

\* C18: when the firmware cannot supply a page, allocate_frame reports the
\* exhaustion as a value and map_segment returns the frame-allocation mapping
\* failure to its caller; the failure is not raised inside the allocator.
C18_ExhaustionReturnedAsError ==
  allocFailed =>
    /\ map_result.res = "FrameAllocationFailed"
    /\ panicMsg = "failed to map ELF"

\* the virtual page map_segment remaps for the zero-fill, and whether it lies
\* under a 2 MiB entry
UnderHuge(page) == p2[HugeOf(page)].kind = "huge"
\* the remap of the shared page was attempted with a frame in hand
RemapTried ==
  /\ pc \in {"seg_extra", "seg_zero", "seg_ret", "panic"}
  /\ elf[seg].type = "Load"
  /\ \/ map_result.at = "seg_bss" /\ map_result.res # "panic"
     \/ sharedOld # -1

\* C19: when the shared page that must be remapped for the zero-fill lies under
\* a large-page entry, map_segment returns the huge-page error (not the
\* frame-allocation error, not success) and the page is not remapped.
C19_HugePageError ==
  (RemapTried /\ UnderHuge(last_page(elf[seg]))) =>
    /\ map_result = [at |-> "seg_bss", res |-> "ParentEntryHugePage"]
    /\ pc = "panic"
    /\ panicMsg = "failed to map ELF"
    /\ p1[last_page(elf[seg])] = NoEntry
    /\ p2[HugeOf(last_page(elf[seg]))] = FwHuge

\* C19 witness: the second program header's shared page lies in the firmware's
\* 2 MiB mapping
C19_Witness ==
  /\ pc = "panic"
  /\ seg = 2
  /\ map_result = [at |-> "seg_bss", res |-> "ParentEntryHugePage"]
  /\ UnderHuge(last_page(elf[seg]))
  /\ next > FirstPoolFrame

\* the virtual pages the current map_segment call mapped to frames it allocated
FreshPages == { m[1] : m \in { x \in segMapped : x[2] \in segFresh } }
\* the pages the zero-fill range needs: the shared page when the range starts
\* inside a page, and the whole pages up to the one holding its last byte
ZeroFillPages(s) ==
  (IF (s.virtual_addr + s.file_size) % PageSize # 0
   THEN {PageOf(s.virtual_addr + s.file_size)} ELSE {})
  \cup (PageOf(align_up(s.virtual_addr + s.file_size)) ..
        PageOf(s.virtual_addr + s.mem_size - 1))

\* C20: for a load segment with mem_size > file_size the virtual pages mapped
\* to newly allocated frames are exactly the shared page (when the zero-fill
\* start is unaligned) and the whole pages from the first page boundary at or
\* after the zero-fill start up to the page containing the last zero-fill byte;
\* no page beyond that one is mapped or allocated, also when
\* virtual_addr + mem_size is page-aligned.
C20_FreshPagesExact ==
  (Returned /\ elf[seg].mem_size > elf[seg].file_size) =>
    /\ FreshPages = ZeroFillPages(elf[seg])
    /\ Cardinality(segFresh) = Cardinality(ZeroFillPages(elf[seg]))

\* C20 when virtual_addr + mem_size is not page-aligned
C20_UnalignedEnd ==
  (Returned /\ elf[seg].mem_size > elf[seg].file_size
     /\ (elf[seg].virtual_addr + elf[seg].mem_size) % PageSize # 0) =>
    /\ FreshPages = ZeroFillPages(elf[seg])
    /\ Cardinality(segFresh) = Cardinality(ZeroFillPages(elf[seg]))

\* C21: the memory-map buffer, sized from memory_map_size before the address
\* space is built, still holds the firmware memory map when it is handed to
\* exit_boot_services, whatever the mappers allocated in between:
\* exit_boot_services never fails for lack of buffer space.
C21_BufferHoldsFinalMap == exit_status # "BUFFER_TOO_SMALL"

\* C22: start_aps returns to efi_main for every outcome the firmware can report
\* for the start request, a successful completion included, so the primary
\* processor goes on to exit_boot_services in all cases.
C22_StartApsAlwaysReturns == Requested => Proceeded

====
